---- MODULE Spec2Model ----
(***************************************************************************)
(* clean-genes, module TrimToORF: the ORF-consensus engine of              *)
(* src/src/orf_trimmer.rs with its helpers in src/src/math.rs and the      *)
(* Fasta / FastaEntry containers of src/src/fasta_manager.rs.              *)
(*                                                                         *)
(* A byte of a sequence is a one-character string; a Vec is a TLA+         *)
(* sequence, so the Rust index i is the TLA+ index i + 1.  Every offset    *)
(* kept in the state (hits, stops, group_start, group_stop) is the Rust    *)
(* 0-based offset.                                                         *)
(***************************************************************************)
EXTENDS Integers, Sequences, FiniteSets, TLC

VARIABLES
    inp_fasta,     \* the Fasta handed to the function under way
    pc,            \* the function of trim_to_orf that runs next
    starts,        \* Vec<Vec<usize>> returned by find_starts
    group_start,   \* usize returned by find_group_start
    first_stops,   \* Vec<usize> returned by find_first_stops
    mode_result,   \* Result<usize, Box<dyn Error>> of mode_vec_usize
    group_stop,    \* usize bound in trim_to_orf after map_err
    result,        \* Result<Fasta, OrfTrimError> returned to the caller
    base_fasta,    \* the Fasta as it was before gap columns were inserted
    trims,         \* how many times perform_trimming has returned Ok
    calls,         \* the functions called so far, in the order of the calls
    contents,      \* Result of fs::read_to_string: the lines of the file
    module,        \* args.module()
    stdout,        \* the lines printed to standard output
    exit_status    \* the exit status of the process, None while it runs

\* the state of main around trim_to_orf
mainVars == <<contents, module, stdout, exit_status>>

vars == <<inp_fasta, pc, starts, group_start, first_stops, mode_result,
          group_stop, result, base_fasta, trims, calls, mainVars>>

----------------------------------------------------------------------------
(* Bounds of the model *)

\* longest sequence of the exhaustively enumerated single-record alignments
MaxLen == 6
\* most records of an alignment built from SeqPool
MaxRecords == 2
\* longest single-record sequence handed to find_first_stops on its own
MaxScanLen == 5
\* longest single-record sequence that gap columns are inserted into
MaxGapLen == 3
\* most gap columns inserted into an alignment
MaxInserted == 1
\* longest single-record sequence handed to perform_trimming on its own
MaxTrimLen == 4
\* greatest start offset handed to find_first_stops or perform_trimming
MaxStart == 2
\* greatest stop offset handed to perform_trimming
MaxStop == 4
\* most calls of perform_trimming in a chain of re-trims
MaxTrims == 2
\* most rows of a Start-Hit Table handed to find_group_start on its own
MaxTableSeqs == 3
\* greatest hit offset in such a table of several rows
MaxRowOffset == 2
\* greatest hit offset in such a table of one row
MaxOffset == 5
\* longest list handed to mode_vec_usize on its own
MaxListLen == 7

----------------------------------------------------------------------------
(* Bytes *)

Gap == "-"

\* u8::to_ascii_uppercase on the bytes that occur in the model
Upper(b) ==
    CASE b = "a" -> "A"
      [] b = "t" -> "T"
      [] b = "g" -> "G"
      [] b = "u" -> "U"
      [] b = "c" -> "C"
      [] b = "n" -> "N"
      [] OTHER -> b

\* Vec<u8>::to_ascii_uppercase
UpperSeq(s) == [i \in 1..Len(s) |-> Upper(s[i])]

\* the bytes of the exhaustively enumerated sequences
Alphabet == {"A", "T", "G", "U", "a", "-"}

----------------------------------------------------------------------------
(* Results *)

Ok(v) == [ok |-> TRUE, val |-> v]
Err(kind, pos) == [ok |-> FALSE, kind |-> kind, pos |-> pos]
Panic(msg) == [ok |-> FALSE, kind |-> "panic", pos |-> 0, msg |-> msg]

\* OrfTrimError, by variant; pos is the payload of NoStopCodons
NoStartCodons == Err("NoStartCodons", 0)
NoGroupStart == Err("NoGroupStart", 0)
NoStopCodons(pos) == Err("NoStopCodons", pos)
TrimFailed == Err("TrimFailed", 0)

\* the value of `result' while trim_to_orf has not returned
Pending == Err("pending", 0)

----------------------------------------------------------------------------
(* Fasta and FastaEntry *)

FastaEntry_new(defline, sequence, entry_number) ==
    [defline |-> defline, sequence |-> sequence, entry_number |-> entry_number]

Fasta_new(filename) == [filename |-> filename, data |-> <<>>]

Fasta_add(fasta, new_entry) ==
    [fasta EXCEPT !.data = Append(@, new_entry)]

num_entries(fasta) == Len(fasta.data)

----------------------------------------------------------------------------
(* find_starts *)

\* slice::windows(3).enumerate(): the pairs (i, window) in order
Windows3(s) ==
    [k \in 1..(IF Len(s) >= 3 THEN Len(s) - 2 ELSE 0) |->
        <<k - 1, <<s[k], s[k + 1], s[k + 2]>> >>]

\* the RNA start codon forgotten
IsStartCodonDnaOnly(codon) == codon = <<"A", "T", "G">>

IsStartCodon(codon) ==
    codon = <<"A", "T", "G">> \/ codon = <<"A", "U", "G">>

\* the offsets one entry pushes, in the order it pushes them
EntryStarts(sequence) ==
    LET w == SelectSeq(Windows3(UpperSeq(sequence)),
                       LAMBDA p : IsStartCodon(p[2]))
    IN  [k \in 1..Len(w) |-> w[k][1]]

\* the outer loop from entry k on; `acc' is the table so far.  Indexing
\* starts[entry.entry_num()] past the end of the table panics, and the panic
\* comes with the first push, not with the entry.
RECURSIVE FindStartsLoop(_, _, _)
FindStartsLoop(data, k, acc) ==
    IF k > Len(data) THEN Ok(acc)
    ELSE LET e == data[k]
             hits == EntryStarts(e.sequence)
         IN  IF hits = <<>> THEN FindStartsLoop(data, k + 1, acc)
             ELSE IF e.entry_number >= Len(acc)
                  THEN Panic("index out of bounds")
                  ELSE FindStartsLoop(data, k + 1,
                         [acc EXCEPT ![e.entry_number + 1] = @ \o hits])

find_starts(fasta, num_seqs) ==
    LET looped == FindStartsLoop(fasta.data, 1, [i \in 1..num_seqs |-> <<>>])
    IN  IF ~looped.ok THEN looped
        ELSE IF looped.val = <<>> THEN NoStartCodons
        ELSE looped

----------------------------------------------------------------------------
(* find_group_start *)

Some(v) == [some |-> TRUE, val |-> v]
None == [some |-> FALSE, val |-> 0]

\* the scoring matrix, by i + 1
RankScore(rank) ==
    CASE rank = 1 -> 8
      [] rank = 2 -> 4
      [] rank = 3 -> 2
      [] rank = 4 -> 1
      [] OTHER -> 0

\* the score of a key already present overwritten, not added to
AddScoreOverwrite(scores, start, this_score) ==
    [k \in DOMAIN scores \cup {start} |->
        IF k = start THEN this_score ELSE scores[k]]

\* HashMap get_mut / insert: add to the key's value, or insert the key
AddScore(scores, start, this_score) ==
    IF start \in DOMAIN scores
    THEN [scores EXCEPT ![start] = @ + this_score]
    ELSE [k \in DOMAIN scores \cup {start} |->
            IF k = start THEN this_score ELSE scores[k]]

\* the inner loop over one entry's hits, from hit i on
RECURSIVE ScoreEntry(_, _, _)
ScoreEntry(entry, i, scores) ==
    IF i > Len(entry) THEN scores
    ELSE ScoreEntry(entry, i + 1, AddScore(scores, entry[i], RankScore(i)))

\* the outer loop over the table, from entry k on
RECURSIVE ScoreTable(_, _, _)
ScoreTable(table, k, scores) ==
    IF k > Len(table) THEN scores
    ELSE ScoreTable(table, k + 1, ScoreEntry(table[k], 1, scores))

\* start_scores after the first loop; the empty HashMap is the empty function
StartScores(table) == ScoreTable(table, 1, [k \in {} |-> 0])

\* every order in which a HashMap may hand out the keys S
RECURSIVE Orders(_)
Orders(S) ==
    IF S = {} THEN {<<>>}
    ELSE UNION {{<<x>> \o o : o \in Orders(S \ {x})} : x \in S}

\* the second loop, over the keys in `order' from position i on
RECURSIVE MaxScan(_, _, _, _, _)
MaxScan(scores, order, i, max_value, max_key) ==
    IF i > Len(order) THEN max_key
    ELSE IF scores[order[i]] > max_value
         THEN MaxScan(scores, order, i + 1, scores[order[i]], Some(order[i]))
         ELSE MaxScan(scores, order, i + 1, max_value, max_key)

find_group_start(table, order) ==
    LET max_key == MaxScan(StartScores(table), order, 1, 0, None)
    IN  IF max_key.some THEN Ok(max_key.val) ELSE NoGroupStart

----------------------------------------------------------------------------
(* find_first_stops *)

IsStopCodon(codon) ==
    codon \in {<<"T", "A", "G">>, <<"T", "G", "A">>, <<"T", "A", "A">>,
               <<"U", "A", "G">>, <<"U", "G", "A">>, <<"U", "A", "A">>}

\* the gap filter left out
ResiduesWithGaps(sequence, from) ==
    [k \in 1..(Len(sequence) - from) |-> <<k - 1, Upper(sequence[from + k])>>]

\* sequence[group_start..] upper-cased and enumerated, the gaps filtered out:
\* the pairs (index in the slice, byte)
Residues(sequence, from) ==
    SelectSeq([k \in 1..(Len(sequence) - from) |->
                 <<k - 1, Upper(sequence[from + k])>>],
              LAMBDA p : p[2] # Gap)

\* the index taken in the gap-filtered stream: enumerate() after filter()
CodonsIndexedAfterFilter(sequence, from) ==
    LET r == Residues(sequence, from)
    IN  [c \in 1..(Len(r) \div 3) |->
           <<3 * c - 3,
             <<r[3 * c - 2][2], r[3 * c - 1][2], r[3 * c][2]>> >>]

\* array_chunks::<3>() mapped to (a[0].0, [a[0].1, a[1].1, a[2].1]); an
\* incomplete last chunk is dropped
Codons(sequence, from) ==
    LET r == Residues(sequence, from)
    IN  [c \in 1..(Len(r) \div 3) |->
           <<r[3 * c - 2][1],
             <<r[3 * c - 2][2], r[3 * c - 1][2], r[3 * c][2]>> >>]

\* the for loop with its break, from codon c on: what one entry pushes
RECURSIVE FirstStopFrom(_, _, _)
FirstStopFrom(codons, c, from) ==
    IF c > Len(codons) THEN <<>>
    ELSE IF IsStopCodon(codons[c][2]) THEN <<from + codons[c][1]>>
    ELSE FirstStopFrom(codons, c + 1, from)

\* the body of the outer loop for one entry
EntryFirstStop(sequence, from) ==
    IF from < Len(sequence)
    THEN FirstStopFrom(Codons(sequence, from), 1, from)
    ELSE <<>>

RECURSIVE FirstStopsLoop(_, _, _, _)
FirstStopsLoop(data, k, from, acc) ==
    IF k > Len(data) THEN acc
    ELSE FirstStopsLoop(data, k + 1, from,
                        acc \o EntryFirstStop(data[k].sequence, from))

\* the locus reported 0-based
find_first_stops_zero_based(fasta, from) ==
    LET stops == FirstStopsLoop(fasta.data, 1, from, <<>>)
    IN  IF stops = <<>> THEN NoStopCodons(from) ELSE Ok(stops)

\* the list returned without the check that it holds a stop
find_first_stops_unchecked(fasta, from) ==
    Ok(FirstStopsLoop(fasta.data, 1, from, <<>>))

find_first_stops(fasta, from) ==
    LET stops == FirstStopsLoop(fasta.data, 1, from, <<>>)
    IN  IF stops = <<>> THEN NoStopCodons(from + 1) ELSE Ok(stops)

----------------------------------------------------------------------------
(* mode_vec_usize *)

EmptyListMsg == "Failed to calculate mode: input list is empty"
NoModeMsg == "Failed to calculate mode: no mode found"

\* *counts.entry(num).or_insert(1) += 1, over the list from position i on
RECURSIVE CountLoop(_, _, _)
CountLoop(list, i, counts) ==
    IF i > Len(list) THEN counts
    ELSE LET num == list[i]
             inserted == IF num \in DOMAIN counts THEN counts
                         ELSE [k \in DOMAIN counts \cup {num} |->
                                 IF k = num THEN 1 ELSE counts[k]]
         IN  CountLoop(list, i + 1, [inserted EXCEPT ![num] = @ + 1])

Counts(list) == CountLoop(list, 1, [k \in {} |-> 0])

\* min_by_key in place of max_by_key
RECURSIVE MinByKey(_, _, _, _)
MinByKey(counts, order, i, best) ==
    IF i > Len(order) THEN best
    ELSE IF ~best.some \/ counts[order[i]] < counts[best.val]
         THEN MinByKey(counts, order, i + 1, Some(order[i]))
         ELSE MinByKey(counts, order, i + 1, best)

\* Iterator::max_by_key over the keys in `order' from position i on: of
\* several elements with the greatest key the last one is returned
RECURSIVE MaxByKey(_, _, _, _)
MaxByKey(counts, order, i, best) ==
    IF i > Len(order) THEN best
    ELSE IF ~best.some \/ counts[order[i]] >= counts[best.val]
         THEN MaxByKey(counts, order, i + 1, Some(order[i]))
         ELSE MaxByKey(counts, order, i + 1, best)

\* the Err payload is the message of the boxed error
mode_vec_usize(list, order) ==
    LET counts == Counts(list)
    IN  IF DOMAIN counts = {} THEN [ok |-> FALSE, msg |-> EmptyListMsg]
        ELSE LET best == MaxByKey(counts, order, 1, None)
             IN  IF best.some THEN Ok(best.val)
                 ELSE [ok |-> FALSE, msg |-> NoModeMsg]

----------------------------------------------------------------------------
(* perform_trimming *)

\* the window closed at its end: i <= stop + 3
InWindowClosed(i, start, stop) == i >= start /\ i <= stop + 3

\* the window open at its start: i > start
InWindowAfterStart(i, start, stop) == i > start /\ i < stop + 3

\* the condition under which byte i is pushed
InWindow(i, start, stop) == i >= start /\ i < stop + 3

\* trimmed_sequence of one entry
TrimSequence(sequence, start, stop) ==
    LET kept == SelectSeq([k \in 1..Len(sequence) |-> <<k - 1, sequence[k]>>],
                          LAMBDA p : InWindow(p[1], start, stop))
    IN  [k \in 1..Len(kept) |-> kept[k][2]]

TrimEntry(entry, start, stop) ==
    FastaEntry_new(entry.defline,
                   TrimSequence(entry.sequence, start, stop),
                   entry.entry_number)

RECURSIVE TrimLoop(_, _, _, _, _)
TrimLoop(data, k, start, stop, trimmed_fasta) ==
    IF k > Len(data) THEN trimmed_fasta
    ELSE TrimLoop(data, k + 1, start, stop,
                  Fasta_add(trimmed_fasta, TrimEntry(data[k], start, stop)))

perform_trimming(fasta, start, stop, out_fasta_name) ==
    LET trimmed_fasta ==
            TrimLoop(fasta.data, 1, start, stop, Fasta_new(out_fasta_name))
    IN  IF num_entries(trimmed_fasta) = 0 THEN TrimFailed
        ELSE Ok(trimmed_fasta)

----------------------------------------------------------------------------
(* open_fasta *)

\* the file named by args.inp_fasta()
InName == "in.fna"

\* line.starts_with('>')
starts_with_gt(line) == Len(line) >= 1 /\ line[1] = ">"

\* entry_num += 1 at every header line, whether or not a record was added
RECURSIVE OpenLoopAllHeaders(_, _, _, _, _, _)
OpenLoopAllHeaders(lines, i, this_fasta, last_defline, last_seq, entry_num) ==
    IF i > Len(lines)
    THEN IF last_seq # <<>>
         THEN Fasta_add(this_fasta,
                        FastaEntry_new(last_defline, last_seq, entry_num))
         ELSE this_fasta
    ELSE IF starts_with_gt(lines[i])
         THEN OpenLoopAllHeaders(
                  lines, i + 1,
                  IF last_seq # <<>>
                  THEN Fasta_add(this_fasta,
                           FastaEntry_new(last_defline, last_seq, entry_num))
                  ELSE this_fasta,
                  Tail(lines[i]), <<>>, entry_num + 1)
         ELSE OpenLoopAllHeaders(lines, i + 1, this_fasta, last_defline,
                                 last_seq \o lines[i], entry_num)

\* for line in contents.lines(), from line i on, and the flush after the
\* loop; a line is the sequence of its bytes
RECURSIVE OpenLoop(_, _, _, _, _, _)
OpenLoop(lines, i, this_fasta, last_defline, last_seq, entry_num) ==
    IF i > Len(lines)
    THEN IF last_seq # <<>>
         THEN Fasta_add(this_fasta,
                        FastaEntry_new(last_defline, last_seq, entry_num))
         ELSE this_fasta
    ELSE IF starts_with_gt(lines[i])
         THEN IF last_seq # <<>>
              THEN OpenLoop(lines, i + 1,
                            Fasta_add(this_fasta,
                                      FastaEntry_new(last_defline, last_seq,
                                                     entry_num)),
                            Tail(lines[i]), <<>>, entry_num + 1)
              ELSE OpenLoop(lines, i + 1, this_fasta, Tail(lines[i]),
                            last_seq, entry_num)
         ELSE OpenLoop(lines, i + 1, this_fasta, last_defline,
                       last_seq \o lines[i], entry_num)

\* file is the Result of fs::read_to_string; its Err is returned by `?'
open_fasta(inp_fasta_name, file) ==
    IF ~file.ok THEN file
    ELSE Ok(OpenLoop(file.val, 1, Fasta_new(inp_fasta_name), <<>>, <<>>, 0))

----------------------------------------------------------------------------
(* Alignments *)

\* deflines by position in the file
Deflines == <<"s0", "s1", "s2", "s3">>

\* open_fasta gives record i of the file the ordinal i and never keeps a
\* record whose sequence is empty
MkFasta(seqs) ==
    [filename |-> "in.fna",
     data |-> [i \in 1..Len(seqs) |->
                 FastaEntry_new(Deflines[i], seqs[i], i - 1)]]

SeqsOfLen(n) == [1..n -> Alphabet]

\* sequences for the alignments of several records: clean, gapped, lower-case
\* and RNA reading frames, sequences without a start or without a stop, and
\* sequences shorter than another one's start offset
SeqPool ==
    { <<"A", "T", "G", "T", "A", "G">>,                           \* ATGTAG
      <<"A", "T", "G", "T", "-", "A", "G">>,                      \* ATGT-AG
      <<"C", "C", "A", "T", "G", "T", "A", "A">>,                 \* CCATGTAA
      <<"a", "t", "g", "t", "g", "a">>,                           \* atgtga
      <<"A", "U", "G", "U", "A", "A">>,                           \* AUGUAA
      <<"A", "-", "T", "G", "T", "A", "G">>,                      \* A-TGTAG
      <<"C", "C">>,                                               \* CC
      <<"A", "T", "G", "A", "A", "A">>,                           \* ATGAAA
      <<"A", "T", "G", "A", "T", "G", "T", "A", "G">>,            \* ATGATGTAG
      <<"-", "A", "T", "G", "T", "A", "G">>,                      \* -ATGTAG
      <<"A", "T", "G", "A", "-", "A", "A", "T", "G", "A">>,       \* ATGA-AATGA
      <<"T", "A", "G">>,                                          \* TAG
      <<"C", "C", "A", "T", "-", "G", "T", "A", "-", "A">>        \* CCAT-GTA-A
    }

RECURSIVE FastaSeqs(_)
FastaSeqs(n) ==
    IF n = 0 THEN {<<>>}
    ELSE {Append(f, s) : f \in FastaSeqs(n - 1), s \in SeqPool}

\* inp_fasta is an alignment of one record over Alphabet, 1..n bytes long
\* (open_fasta keeps no record whose sequence is empty)
IsSingleRecordFasta(fasta, n) ==
    \E len \in 1..n : \E s \in SeqsOfLen(len) : fasta = MkFasta(<<s>>)

\* inp_fasta is an alignment of up to MaxRecords records from SeqPool; the
\* empty one is what open_fasta returns for an empty file
IsPoolFasta(fasta) ==
    \E n \in 0..MaxRecords : \E f \in FastaSeqs(n) : fasta = MkFasta(f)

OutName == "out.fna"

----------------------------------------------------------------------------
(* trim_to_orf, one action per call it makes.  A `?' on an Err returns it. *)

\* let starts = find_starts(inp_fasta, num_seqs)?;
FindStarts ==
    /\ pc = "find_starts"
    /\ LET r == find_starts(inp_fasta, num_entries(inp_fasta))
       IN  IF r.ok
           THEN /\ starts' = r.val
                /\ pc' = "find_group_start"
                /\ UNCHANGED result
           ELSE /\ result' = r
                /\ pc' = IF r.kind = "panic" THEN "panicked" ELSE "returned"
                /\ UNCHANGED starts
    /\ UNCHANGED <<inp_fasta, group_start, first_stops, mode_result,
                   group_stop, base_fasta, trims>>
    /\ calls' = Append(calls, "find_starts")
    /\ UNCHANGED mainVars

\* let group_start = find_group_start(&starts)?;
FindGroupStart ==
    /\ pc = "find_group_start"
    /\ \E order \in Orders(DOMAIN StartScores(starts)) :
         LET r == find_group_start(starts, order)
         IN  IF r.ok
             THEN /\ group_start' = r.val
                  /\ pc' = "find_first_stops"
                  /\ UNCHANGED result
             ELSE /\ result' = r
                  /\ pc' = "returned"
                  /\ UNCHANGED group_start
    /\ UNCHANGED <<inp_fasta, starts, first_stops, mode_result, group_stop,
                   base_fasta, trims>>
    /\ calls' = Append(calls, "find_group_start")
    /\ UNCHANGED mainVars

\* let first_stops = find_first_stops(inp_fasta, group_start)?;
FindFirstStops ==
    /\ pc = "find_first_stops"
    /\ LET r == find_first_stops(inp_fasta, group_start)
       IN  IF r.ok
           THEN /\ first_stops' = r.val
                /\ pc' = "mode_vec_usize"
                /\ UNCHANGED result
           ELSE /\ result' = r
                /\ pc' = "returned"
                /\ UNCHANGED first_stops
    /\ UNCHANGED <<inp_fasta, starts, group_start, mode_result, group_stop,
                   base_fasta, trims>>
    /\ calls' = Append(calls, "find_first_stops")
    /\ UNCHANGED mainVars

\* let group_stop = mode_vec_usize(&first_stops)
\*     .map_err(|_| OrfTrimError::TrimFailed)?;
ModeVecUsize ==
    /\ pc = "mode_vec_usize"
    /\ \E order \in Orders(DOMAIN Counts(first_stops)) :
         LET r == mode_vec_usize(first_stops, order)
         IN  /\ mode_result' = r
             /\ IF r.ok
                THEN /\ group_stop' = r.val
                     /\ pc' = "perform_trimming"
                     /\ UNCHANGED result
                ELSE /\ result' = TrimFailed
                     /\ pc' = "returned"
                     /\ UNCHANGED group_stop
    /\ UNCHANGED <<inp_fasta, starts, group_start, first_stops, base_fasta,
                   trims>>
    /\ calls' = Append(calls, "mode_vec_usize")
    /\ UNCHANGED mainVars

\* perform_trimming(inp_fasta, group_start, group_stop, out_fasta)
PerformTrimming ==
    /\ pc = "perform_trimming"
    /\ LET r == perform_trimming(inp_fasta, group_start, group_stop, OutName)
       IN  /\ result' = r
           /\ trims' = IF r.ok THEN trims + 1 ELSE trims
    /\ pc' = "returned"
    /\ UNCHANGED <<inp_fasta, starts, group_start, first_stops, mode_result,
                   group_stop, base_fasta>>
    /\ calls' = Append(calls, "perform_trimming")
    /\ UNCHANGED mainVars

----------------------------------------------------------------------------
(* Specifications *)

\* the values of the variables a function has not set yet
Unset ==
    /\ starts = <<>>
    /\ group_start = 0
    /\ first_stops = <<>>
    /\ mode_result = Pending
    /\ group_stop = 0
    /\ result = Pending
    /\ trims = 0

\* the function under way is called on its own, as the unit tests call it:
\* no file has been read, nothing is printed and the process does not exit
CalledDirectly ==
    /\ calls = <<>>
    /\ contents = Ok(<<>>)
    /\ module = "TrimToORF"
    /\ stdout = <<>>
    /\ exit_status = None

\* trim_to_orf on an alignment as open_fasta returns it
Init ==
    /\ \/ IsSingleRecordFasta(inp_fasta, MaxLen)
       \/ IsPoolFasta(inp_fasta)
    /\ base_fasta = inp_fasta
    /\ pc = "find_starts"
    /\ Unset
    /\ CalledDirectly

Next ==
    \/ FindStarts
    \/ FindGroupStart
    \/ FindFirstStops
    \/ ModeVecUsize
    \/ PerformTrimming

Spec == Init /\ [][Next]_vars

----------------------------------------------------------------------------
(* The functions on their own, as the unit tests and the properties of the *)
(* design call them: the arguments are drawn in the initial state and the  *)
(* action of the function is the one trim_to_orf takes.                    *)

\* the elements of a set of offsets in increasing order
RECURSIVE Sorted(_)
Sorted(S) ==
    IF S = {} THEN <<>>
    ELSE LET m == CHOOSE x \in S : \A y \in S : x <= y
         IN  <<m>> \o Sorted(S \ {m})

\* a table of n rows, each a strictly increasing list (find_starts pushes
\* the offsets of a row in increasing order) of offsets up to `most'
IsStartTable(table, n, most) ==
    \E rows \in [1..n -> SUBSET (0..most)] :
        table = [i \in 1..n |-> Sorted(rows[i])]

\* the table test::good_starts expects of fake_short.fna, and one of two
\* rows that go beyond the fourth rank
LongTables ==
    { << <<2, 5>>, <<2>>, <<2, 7>>, <<2, 5>>, <<2, 5>>, <<2>>, <<2>>, <<>>,
         <<0>> >>,
      << <<0, 3, 6, 9, 12>>, <<3, 6, 9, 12, 15>> >> }

\* find_group_start on a table: one row over 0..MaxOffset, up to
\* MaxTableSeqs rows over 0..MaxRowOffset, or one of LongTables
InitGroupStart ==
    /\ inp_fasta = Fasta_new("in.fna")
    /\ base_fasta = inp_fasta
    /\ pc = "find_group_start"
    /\ \/ IsStartTable(starts, 1, MaxOffset)
       \/ \E n \in 0..MaxTableSeqs : IsStartTable(starts, n, MaxRowOffset)
       \/ starts \in LongTables
    /\ group_start = 0
    /\ first_stops = <<>>
    /\ mode_result = Pending
    /\ group_stop = 0
    /\ result = Pending
    /\ trims = 0
    /\ CalledDirectly

NextGroupStart == FindGroupStart

SpecGroupStart == InitGroupStart /\ [][NextGroupStart]_vars

\* find_first_stops on an alignment and a start offset
InitStops ==
    /\ \/ IsSingleRecordFasta(inp_fasta, MaxScanLen)
       \/ IsPoolFasta(inp_fasta)
    /\ base_fasta = inp_fasta
    /\ pc = "find_first_stops"
    /\ starts = <<>>
    /\ group_start \in 0..MaxStart
    /\ first_stops = <<>>
    /\ mode_result = Pending
    /\ group_stop = 0
    /\ result = Pending
    /\ trims = 0
    /\ CalledDirectly

NextStops == FindFirstStops

SpecStops == InitStops /\ [][NextStops]_vars

\* sequence with a gap character inserted before the byte at offset p
InsertAt(sequence, p) ==
    SubSeq(sequence, 1, p) \o <<Gap>> \o SubSeq(sequence, p + 1, Len(sequence))

RECURSIVE TotalLen(_, _)
TotalLen(data, k) ==
    IF k > Len(data) THEN 0
    ELSE Len(data[k].sequence) + TotalLen(data, k + 1)

\* the gap characters inserted since base_fasta
Inserted == TotalLen(inp_fasta.data, 1) - TotalLen(base_fasta.data, 1)

\* the alignment is edited before the scan: one gap character goes into one
\* sequence, the order of its other bytes kept
InsertGap ==
    /\ pc = "find_first_stops"
    /\ Inserted < MaxInserted
    /\ \E k \in 1..Len(inp_fasta.data) :
         \E p \in 0..Len(inp_fasta.data[k].sequence) :
            inp_fasta' = [inp_fasta EXCEPT !.data[k].sequence = InsertAt(@, p)]
    /\ UNCHANGED <<pc, starts, group_start, first_stops, mode_result,
                   group_stop, result, base_fasta, trims, calls, mainVars>>

InitGap ==
    /\ IsSingleRecordFasta(inp_fasta, MaxGapLen)
    /\ base_fasta = inp_fasta
    /\ pc = "find_first_stops"
    /\ starts = <<>>
    /\ group_start \in 0..MaxStart
    /\ first_stops = <<>>
    /\ mode_result = Pending
    /\ group_stop = 0
    /\ result = Pending
    /\ trims = 0
    /\ CalledDirectly

NextGap ==
    \/ InsertGap
    \/ FindFirstStops

SpecGap == InitGap /\ [][NextGap]_vars

\* the values of the lists handed to mode_vec_usize on its own: those of
\* test::good_mode
ModeValues == {2, 3, 7, 9}

InitMode ==
    /\ inp_fasta = Fasta_new("in.fna")
    /\ base_fasta = inp_fasta
    /\ pc = "mode_vec_usize"
    /\ starts = <<>>
    /\ group_start = 0
    /\ \E n \in 0..MaxListLen : first_stops \in [1..n -> ModeValues]
    /\ mode_result = Pending
    /\ group_stop = 0
    /\ result = Pending
    /\ trims = 0
    /\ CalledDirectly

NextMode == ModeVecUsize

SpecMode == InitMode /\ [][NextMode]_vars

\* the trimmed alignment is trimmed again, the loci given in its own frame
Retrim ==
    /\ pc = "returned"
    /\ result.ok
    /\ trims < MaxTrims
    /\ inp_fasta' = result.val
    /\ group_start' = 0
    /\ group_stop' = group_stop - group_start
    /\ result' = Pending
    /\ pc' = "perform_trimming"
    /\ UNCHANGED <<starts, first_stops, mode_result, base_fasta, trims,
                   calls, mainVars>>

\* perform_trimming on an alignment and loci start <= stop, as trim_to_orf
\* hands them over (a first stop is never before the start it was scanned
\* from)
InitTrim ==
    /\ \/ IsSingleRecordFasta(inp_fasta, MaxTrimLen)
       \/ IsPoolFasta(inp_fasta)
    /\ base_fasta = inp_fasta
    /\ pc = "perform_trimming"
    /\ starts = <<>>
    /\ group_start \in 0..MaxStart
    /\ first_stops = <<>>
    /\ mode_result = Pending
    /\ group_stop \in group_start..MaxStop
    /\ result = Pending
    /\ trims = 0
    /\ CalledDirectly

NextTrim ==
    \/ PerformTrimming
    \/ Retrim

SpecTrim == InitTrim /\ [][NextTrim]_vars

\* most lines of an input file
MaxLines == 4

\* the lines of the input files: two headers, sequence lines that make
\* records with and without a start and a stop whether joined or alone, and
\* a line that ends in the two bytes "C3" "A9" of one non-ASCII character
LinePool ==
    { <<">", "x">>,
      <<">", "y">>,
      <<"A", "T", "G">>,
      <<"T", "A", "G">>,
      <<"C", "C">>,
      <<"A", "T", "G", "T", "A", "G">>,
      <<"A", "T", "G", "T", "A", "C3", "A9">> }

\* what fs::read_to_string returns when the file cannot be read
IoError == Err("io", 0)

\* the file has up to n lines of LinePool
IsReadableFile(file, n) ==
    \E len \in 0..n : \E lines \in [1..len -> LinePool] : file = Ok(lines)

\* let inp_fasta = match open_fasta(args.inp_fasta()) { Ok .. Err .. exit(1) }
OpenFasta ==
    /\ pc = "open_fasta"
    /\ LET r == open_fasta(InName, contents)
       IN  IF r.ok
           THEN /\ inp_fasta' = r.val
                /\ base_fasta' = r.val
                /\ pc' = "find_starts"
                /\ UNCHANGED exit_status
           ELSE /\ exit_status' = Some(1)
                /\ pc' = "exited"
                /\ UNCHANGED <<inp_fasta, base_fasta>>
    /\ calls' = Append(calls, "open_fasta")
    /\ UNCHANGED <<starts, group_start, first_stops, mode_result, group_stop,
                   result, trims, contents, module, stdout>>

\* the alignment trim_to_orf returned is handed to trim_to_orf again
TrimAgain ==
    /\ pc = "returned"
    /\ result.ok
    /\ trims < MaxTrims
    /\ inp_fasta' = result.val
    /\ starts' = <<>>
    /\ group_start' = 0
    /\ first_stops' = <<>>
    /\ mode_result' = Pending
    /\ group_stop' = 0
    /\ result' = Pending
    /\ pc' = "find_starts"
    /\ UNCHANGED <<base_fasta, trims, calls, mainVars>>

\* a file is opened and the alignment is trimmed, and trimmed again
InitChain ==
    /\ IsReadableFile(contents, MaxLines)
    /\ module = "TrimToORF"
    /\ inp_fasta = Fasta_new(InName)
    /\ base_fasta = inp_fasta
    /\ pc = "open_fasta"
    /\ Unset
    /\ calls = <<>>
    /\ stdout = <<>>
    /\ exit_status = None

NextChain ==
    \/ OpenFasta
    \/ FindStarts
    \/ FindGroupStart
    \/ FindFirstStops
    \/ ModeVecUsize
    \/ PerformTrimming
    \/ TrimAgain

SpecChain == InitChain /\ [][NextChain]_vars

\* the values of args.module() that validate_modules lets through
Modules == {"TrimToORF", "placeholder"}

\* String::from_utf8(bytes).is_ok(), from byte i on, for the bytes of the
\* model: "C3" is the first byte of a character of two bytes and "A9" its
\* second byte, every other byte is ASCII
RECURSIVE from_utf8_ok(_, _)
from_utf8_ok(bytes, i) ==
    IF i > Len(bytes) THEN TRUE
    ELSE IF bytes[i] = "C3"
         THEN /\ i + 1 <= Len(bytes)
              /\ bytes[i + 1] = "A9"
              /\ from_utf8_ok(bytes, i + 2)
         ELSE /\ bytes[i] # "A9"
              /\ from_utf8_ok(bytes, i + 1)

\* the Err arm taken for every Result
AfterTrimIgnoringErr(r) == "write_fasta"

\* where main goes on the Result of trim_to_orf: the statement after the
\* match, or process::exit in the Err arm
AfterTrim(r) == IF r.ok THEN "write_fasta" ELSE "exited"

\* if args.module() == "TrimToORF" { .. }; otherwise main returns
MainDispatch ==
    /\ pc = "main"
    /\ IF module = "TrimToORF"
       THEN /\ pc' = "open_fasta"
            /\ UNCHANGED exit_status
       ELSE /\ pc' = "exited"
            /\ exit_status' = Some(0)
    /\ UNCHANGED <<inp_fasta, starts, group_start, first_stops, mode_result,
                   group_stop, result, base_fasta, trims, calls, contents,
                   module, stdout>>

\* let out_fasta = match trim_to_orf(..) { Ok .. Err .. exit(1) };
\* write_fasta(&out_fasta) is entered; a panic unwinds main with status 101
TrimReturned ==
    /\ pc \in {"returned", "panicked"}
    /\ IF pc = "panicked"
       THEN /\ pc' = "exited"
            /\ exit_status' = Some(101)
            /\ UNCHANGED calls
       ELSE LET next == AfterTrim(result)
            IN  /\ pc' = next
                /\ IF next = "write_fasta"
                   THEN /\ calls' = Append(calls, "write_fasta")
                        /\ UNCHANGED exit_status
                   ELSE /\ exit_status' = Some(1)
                        /\ UNCHANGED calls
    /\ UNCHANGED <<inp_fasta, starts, group_start, first_stops, mode_result,
                   group_stop, result, base_fasta, trims, contents, module,
                   stdout>>

\* the entries print_entry has printed in full: two lines each
Printed == Len(stdout) \div 2

\* one turn of the loop of write_fasta: entry.print_entry().  The header is
\* printed before from_utf8(..).unwrap() panics
PrintEntry ==
    /\ pc = "write_fasta"
    /\ Printed < Len(result.val.data)
    /\ LET entry == result.val.data[Printed + 1]
           header == <<">">> \o entry.defline
       IN  IF from_utf8_ok(entry.sequence, 1)
           THEN /\ stdout' = stdout \o <<header, entry.sequence>>
                /\ UNCHANGED <<pc, exit_status>>
           ELSE /\ stdout' = Append(stdout, header)
                /\ pc' = "exited"
                /\ exit_status' = Some(101)
    /\ UNCHANGED <<inp_fasta, starts, group_start, first_stops, mode_result,
                   group_stop, result, base_fasta, trims, calls, contents,
                   module>>

\* the loop of write_fasta is over and main returns
WriteFastaReturns ==
    /\ pc = "write_fasta"
    /\ Printed = Len(result.val.data)
    /\ pc' = "exited"
    /\ exit_status' = Some(0)
    /\ UNCHANGED <<inp_fasta, starts, group_start, first_stops, mode_result,
                   group_stop, result, base_fasta, trims, calls, contents,
                   module, stdout>>

\* main after Config::parse(): the file is unreadable or has up to MaxLines
\* lines
InitMain ==
    /\ \/ contents = IoError
       \/ IsReadableFile(contents, MaxLines)
    /\ module \in Modules
    /\ inp_fasta = Fasta_new(InName)
    /\ base_fasta = inp_fasta
    /\ pc = "main"
    /\ Unset
    /\ calls = <<>>
    /\ stdout = <<>>
    /\ exit_status = None

NextMain ==
    \/ MainDispatch
    \/ OpenFasta
    \/ FindStarts
    \/ FindGroupStart
    \/ FindFirstStops
    \/ ModeVecUsize
    \/ PerformTrimming
    \/ TrimReturned
    \/ PrintEntry
    \/ WriteFastaReturns

SpecMain == InitMain /\ [][NextMain]_vars

----------------------------------------------------------------------------
(* What the claims speak of, said without the code's operators *)

IsA(b) == b \in {"A", "a"}
IsG(b) == b \in {"G", "g"}
IsTorU(b) == b \in {"T", "t", "U", "u"}

\* the bytes at offsets i, i+1, i+2 of sequence are ATG or AUG in any case
StartWindowAt(sequence, i) ==
    /\ i >= 0
    /\ i + 3 <= Len(sequence)
    /\ IsA(sequence[i + 1])
    /\ IsTorU(sequence[i + 2])
    /\ IsG(sequence[i + 3])

HasStartWindow(fasta) ==
    \E k \in 1..Len(fasta.data) :
        \E i \in 0..Len(fasta.data[k].sequence) :
            StartWindowAt(fasta.data[k].sequence, i)

\* x y z is TAG, TGA, TAA, UAG, UGA or UAA in any case
IsStopTriplet(x, y, z) ==
    /\ IsTorU(x)
    /\ \/ IsA(y) /\ IsG(z)
       \/ IsG(y) /\ IsA(z)
       \/ IsA(y) /\ IsA(z)

StrictlyIncreasing(list) ==
    \A i, j \in 1..Len(list) : i < j => list[i] < list[j]

Elements(list) == {list[i] : i \in 1..Len(list)}

\* find_starts has returned, and what it returned was Ok
FindStartsReturnedOk == pc \notin {"find_starts", "panicked"} /\ result # NoStartCodons
FindStartsFailed == pc = "returned" /\ result = NoStartCodons

----------------------------------------------------------------------------
(* C1 *)

\* C1: find_starts fails with NoStartCodons whenever the collection has no
\* record or no sequence contains an ATG/AUG window, and returns a table only
\* when some sequence yields a hit.  The code fails only on the empty
\* collection: the statement is violated.
C1_NoStartCodonsWithoutHits ==
    pc # "find_starts" =>
        /\ ~HasStartWindow(inp_fasta) => FindStartsFailed
        /\ FindStartsReturnedOk => HasStartWindow(inp_fasta)

----------------------------------------------------------------------------
(* C10 *)

\* C10: when find_starts returns Ok, the table has one list per record, at
\* the record's ordinal, and the list holds in strictly increasing order
\* exactly the offsets i at which bytes i, i+1, i+2 are ATG or AUG in any
\* case; no window that holds a gap character is a hit.
C10_StartHitTable ==
    FindStartsReturnedOk =>
        /\ Len(starts) = num_entries(inp_fasta)
        /\ \A k \in 1..Len(inp_fasta.data) :
             LET e == inp_fasta.data[k]
                 hits == starts[e.entry_number + 1]
             IN  /\ StrictlyIncreasing(hits)
                 /\ Elements(hits) =
                        {i \in 0..Len(e.sequence) : StartWindowAt(e.sequence, i)}
                 /\ \A i \in Elements(hits) :
                        Gap \notin {e.sequence[i + 1], e.sequence[i + 2],
                                    e.sequence[i + 3]}

\* two records, the first with two hits, the second with one at offset 2
C10_Witness ==
    /\ pc = "find_group_start"
    /\ Len(starts) = 2
    /\ starts[1] = <<0, 3>>
    /\ starts[2] = <<2>>

----------------------------------------------------------------------------
(* C2 *)

\* the weight of the rank-th hit of a sequence: 8, 4, 2, 1, then 0
Weight(rank) == IF rank <= 4 THEN 2 ^ (4 - rank) ELSE 0

\* the weights of the hits of one row at offset off, from rank i on
RECURSIVE RowVotes(_, _, _)
RowVotes(row, i, off) ==
    IF i > Len(row) THEN 0
    ELSE (IF row[i] = off THEN Weight(i) ELSE 0) + RowVotes(row, i + 1, off)

\* the score of offset off: its votes summed over the rows from row k on
RECURSIVE Votes(_, _, _)
Votes(table, k, off) ==
    IF k > Len(table) THEN 0
    ELSE RowVotes(table[k], 1, off) + Votes(table, k + 1, off)

AllRowsEmpty(table) == \A k \in 1..Len(table) : table[k] = <<>>

HitOffsets(table) == UNION {Elements(table[k]) : k \in 1..Len(table)}

\* C2: find_group_start returns an offset whose score (the weights 8, 4, 2,
\* 1, 0 by rank within the own sequence's list, summed over all sequences)
\* is positive and at least the score of every other offset; it fails with
\* NoGroupStart exactly when every list is empty.
C2_GroupStartHasTopScore ==
    /\ pc = "find_first_stops" =>
         /\ ~AllRowsEmpty(starts)
         /\ group_start \in HitOffsets(starts)
         /\ Votes(starts, 1, group_start) > 0
         /\ \A off \in HitOffsets(starts) :
               Votes(starts, 1, group_start) >= Votes(starts, 1, off)
    /\ pc = "returned" =>
         /\ AllRowsEmpty(starts)
         /\ result = NoGroupStart

\* two rows of five hits: offset 3 wins with 4 + 8, the fifth hits weigh 0
C2_Witness ==
    /\ pc = "find_first_stops"
    /\ starts = << <<0, 3, 6, 9, 12>>, <<3, 6, 9, 12, 15>> >>
    /\ group_start = 3

----------------------------------------------------------------------------
(* C7 *)

Occurrences(list, v) == Cardinality({i \in 1..Len(list) : list[i] = v})

\* C7: for a non-empty list mode_vec_usize returns a value of the list that
\* occurs at least as often as every other value (7 for [2,7,9,2,7,7,3]);
\* for the empty list it fails with 'Failed to calculate mode: input list is
\* empty'.
C7_ModeIsMostFrequent ==
    pc # "mode_vec_usize" =>
        IF first_stops = <<>>
        THEN /\ ~mode_result.ok
             /\ mode_result.msg = "Failed to calculate mode: input list is empty"
        ELSE /\ mode_result.ok
             /\ mode_result.val \in Elements(first_stops)
             /\ \A v \in Elements(first_stops) :
                   Occurrences(first_stops, mode_result.val)
                       >= Occurrences(first_stops, v)
             /\ first_stops = <<2, 7, 9, 2, 7, 7, 3>> => mode_result.val = 7

\* the list of test::good_mode, its mode bound to group_stop
C7_Witness ==
    /\ pc = "perform_trimming"
    /\ first_stops = <<2, 7, 9, 2, 7, 7, 3>>
    /\ mode_result = Ok(7)
    /\ group_stop = 7

----------------------------------------------------------------------------
(* C3 *)

\* how many bytes at the offsets a <= i < b of sequence are no gap
NonGaps(sequence, a, b) ==
    Cardinality({i \in a..(b - 1) : sequence[i + 1] # Gap})

\* p, q, r are the offsets of three residues with nothing but gaps between
ConsecutiveResidues(sequence, p, q, r) ==
    /\ p < q /\ q < r /\ r < Len(sequence)
    /\ sequence[p + 1] # Gap /\ sequence[q + 1] # Gap /\ sequence[r + 1] # Gap
    /\ NonGaps(sequence, p + 1, q) = 0
    /\ NonGaps(sequence, q + 1, r) = 0

\* a complete triplet of the frame that opens at offset from begins at
\* offset p, and it is a stop codon
FrameStopAt(sequence, from, p) ==
    /\ p >= from
    /\ NonGaps(sequence, from, p) % 3 = 0
    /\ \E q, r \in (p + 1)..(Len(sequence) - 1) :
          /\ ConsecutiveResidues(sequence, p, q, r)
          /\ IsStopTriplet(sequence[p + 1], sequence[q + 1], sequence[r + 1])

FrameStops(sequence, from) ==
    {p \in 0..(Len(sequence) - 1) : FrameStopAt(sequence, from, p)}

\* what one sequence contributes: nothing when it is no longer than the start
\* offset or has no stop in the frame, else the offset of its first stop
ExpectedEntryStop(sequence, from) ==
    IF Len(sequence) <= from \/ FrameStops(sequence, from) = {} THEN <<>>
    ELSE <<CHOOSE p \in FrameStops(sequence, from) :
              \A p2 \in FrameStops(sequence, from) : p <= p2>>

RECURSIVE ExpectedStops(_, _, _)
ExpectedStops(data, k, from) ==
    IF k > Len(data) THEN <<>>
    ELSE ExpectedEntryStop(data[k].sequence, from)
             \o ExpectedStops(data, k + 1, from)

\* the list find_first_stops pushed to, once it has returned
PushedStops == IF pc = "returned" THEN <<>> ELSE first_stops

\* C3: every sequence longer than the start offset contributes the offset,
\* in the gapped sequence, of the first residue of its first stop triplet
\* (TAG, TGA, TAA, UAG, UGA, UAA in any case) among the complete triplets of
\* its non-gap residues from the start offset on; the other sequences
\* contribute nothing; the entries are in record order.
C3_FirstStops ==
    pc # "find_first_stops" =>
        PushedStops = ExpectedStops(inp_fasta.data, 1, group_start)

\* the first record is no longer than the start offset and is skipped; the
\* stop of the second lies behind a gap, and a gap lies within it
C3_Witness ==
    /\ pc = "mode_vec_usize"
    /\ Len(inp_fasta.data) = 2
    /\ Len(inp_fasta.data[1].sequence) <= group_start
    /\ first_stops = <<6>>
    /\ inp_fasta.data[2].sequence[5] = Gap
    /\ inp_fasta.data[2].sequence[9] = Gap

----------------------------------------------------------------------------
(* C6 *)

AllNoLongerThan(fasta, from) ==
    \A k \in 1..Len(fasta.data) : Len(fasta.data[k].sequence) <= from

\* C6: find_first_stops fails with NoStopCodons(start + 1) whenever no
\* sequence has a stop in the frame, so whenever the start offset is at or
\* past the end of every sequence; otherwise it returns a non-empty list.
C6_NoStopCodons ==
    pc # "find_first_stops" =>
        /\ IF ExpectedStops(inp_fasta.data, 1, group_start) = <<>>
           THEN /\ pc = "returned"
                /\ result = [ok |-> FALSE, kind |-> "NoStopCodons",
                             pos |-> group_start + 1]
           ELSE /\ pc = "mode_vec_usize"
                /\ first_stops # <<>>
                /\ result = Pending
        /\ AllNoLongerThan(inp_fasta, group_start) =>
              result.kind = "NoStopCodons" /\ result.pos = group_start + 1

\* two records, both no longer than the start offset 2: NoStopCodons(3)
C6_Witness ==
    /\ pc = "returned"
    /\ Len(inp_fasta.data) = 2
    /\ group_start = 2
    /\ AllNoLongerThan(inp_fasta, group_start)
    /\ result.kind = "NoStopCodons"
    /\ result.pos = 3

----------------------------------------------------------------------------
(* C8 *)

\* which codon a stop at offset p of sequence is: the ordinal of its first
\* residue among the residues of the sequence
CodonOrdinal(sequence, p) == NonGaps(sequence, 0, p)

\* the codons found as first stops in the one record of fasta
FoundCodons(fasta, stops) ==
    [i \in 1..Len(stops) |-> CodonOrdinal(fasta.data[1].sequence, stops[i])]

\* the same scan of the alignment as it was before the insertions
BaseStops ==
    LET r == find_first_stops(base_fasta, group_start)
    IN  IF r.ok THEN r.val ELSE <<>>

SameCodonAsBase ==
    FoundCodons(inp_fasta, PushedStops) = FoundCodons(base_fasta, BaseStops)

\* no gap went in before the start offset: the bytes before it are the same
InsertedFromStartOn ==
    \/ inp_fasta = base_fasta
    \/ /\ Len(base_fasta.data[1].sequence) >= group_start
       /\ SubSeq(inp_fasta.data[1].sequence, 1, group_start)
              = SubSeq(base_fasta.data[1].sequence, 1, group_start)

\* C8 as stated: for a fixed start offset, inserting gap characters into a
\* sequence changes neither whether find_first_stops finds a stop nor which
\* codon it is.  A gap inserted before the start offset moves a different
\* residue to the start offset: the statement is violated.
C8_GapInvarianceAnywhere ==
    pc # "find_first_stops" => SameCodonAsBase

\* C8 amended: for a fixed start offset, inserting gap characters at or
\* after the start offset changes neither whether find_first_stops finds a
\* stop nor which codon it is; only the reported offset may shift.
C8_GapInvarianceFromStartOn ==
    (pc # "find_first_stops" /\ InsertedFromStartOn) => SameCodonAsBase

\* a gap went in at or after the start offset and before the stop, whose
\* reported offset shifted by one
C8_Witness ==
    /\ pc = "mode_vec_usize"
    /\ Inserted = 1
    /\ InsertedFromStartOn
    /\ BaseStops # <<>>
    /\ first_stops = <<BaseStops[1] + 1>>

----------------------------------------------------------------------------
(* C4 *)

Min(a, b) == IF a <= b THEN a ELSE b

\* the records of the trimmed alignment that carry the ordinal of entry
OutputsOf(entry, out) ==
    {j \in 1..Len(out.data) : out.data[j].entry_number = entry.entry_number}

\* trimmed is the bytes of sequence at the offsets start <= i < stop + 3, in
\* order and unchanged
IsWindowOf(trimmed, sequence, start, stop) ==
    /\ Len(trimmed) = Min(Len(sequence), stop + 3) - start
    /\ \A j \in 1..Len(trimmed) : trimmed[j] = sequence[start + j]

SomeLongerThan(fasta, from) ==
    \E k \in 1..Len(fasta.data) : Len(fasta.data[k].sequence) > from

\* C4 as stated: a record longer than start comes out as its window
\* [start, stop + 3); a record no longer than start is absent from the
\* output of a successful run; the run fails if no record is longer than
\* start.  The code emits every record, an empty one for a short record, and
\* fails only on an alignment of no records: the statement is violated.
C4_ShortRecordsAbsent ==
    pc = "returned" =>
        /\ result.ok =>
             \A k \in 1..Len(inp_fasta.data) :
                LET e == inp_fasta.data[k]
                IN  IF Len(e.sequence) > group_start
                    THEN \E j \in OutputsOf(e, result.val) :
                            IsWindowOf(result.val.data[j].sequence, e.sequence,
                                       group_start, group_stop)
                    ELSE OutputsOf(e, result.val) = {}
        /\ ~SomeLongerThan(inp_fasta, group_start) => ~result.ok

\* C4 amended: for start <= stop, a record longer than start comes out as
\* its window [start, stop + 3), of length min(length, stop + 3) - start; a
\* record no longer than start comes out too, with an empty sequence; every
\* record comes out once, at its position, under its defline and ordinal;
\* the run fails, with TrimFailed, exactly when the alignment has no record.
C4_WindowOfEveryRecord ==
    pc = "returned" =>
        IF num_entries(inp_fasta) = 0
        THEN result = [ok |-> FALSE, kind |-> "TrimFailed", pos |-> 0]
        ELSE /\ result.ok
             /\ Len(result.val.data) = Len(inp_fasta.data)
             /\ \A k \in 1..Len(inp_fasta.data) :
                   LET e == inp_fasta.data[k]
                       o == result.val.data[k]
                   IN  /\ o.defline = e.defline
                       /\ o.entry_number = e.entry_number
                       /\ IF Len(e.sequence) > group_start
                          THEN IsWindowOf(o.sequence, e.sequence,
                                          group_start, group_stop)
                          ELSE o.sequence = <<>>

\* a first trim of two records: one no longer than start, which comes out
\* empty, and one that reaches beyond stop + 3, which is cut at both ends
C4_Witness ==
    /\ pc = "returned"
    /\ trims = 1
    /\ result.ok
    /\ Len(inp_fasta.data) = 2
    /\ group_start > 0
    /\ Len(inp_fasta.data[1].sequence) <= group_start
    /\ result.val.data[1].sequence = <<>>
    /\ Len(inp_fasta.data[2].sequence) > group_stop + 3
    /\ Len(result.val.data[2].sequence) = group_stop + 3 - group_start

----------------------------------------------------------------------------
(* C9 *)

\* C9: trimming a trimmed alignment again with the loci in its own frame
\* (start 0, stop = old stop - old start) succeeds and returns the same
\* sequences, deflines and ordinals.
C9_RetrimIdempotent ==
    /\ (pc = "returned" /\ trims >= 1) => result.ok
    /\ (pc = "returned" /\ trims >= 2) => result.val.data = inp_fasta.data

\* the second trim has returned; the first one had cut a sequence at both
\* ends and left bytes of it
C9_Witness ==
    /\ pc = "returned"
    /\ trims = 2
    /\ group_start = 0
    /\ Len(base_fasta.data) >= 1
    /\ Len(result.val.data[1].sequence) > 0
    /\ Len(base_fasta.data[1].sequence)
           >= Len(result.val.data[1].sequence) + 2
    /\ result.val.data[1].sequence[1] # base_fasta.data[1].sequence[1]

----------------------------------------------------------------------------
(* C5 *)

\* C5: in a successful run of trim_to_orf, a sequence whose first stop in
\* the frame lies at the consensus stop offset keeps all three residues of
\* that stop codon: the bytes at stop, stop + 1, stop + 2, which are the
\* last three of the window, are a stop codon in any case.  The window is
\* three bytes wide from stop on, the codon is three residues: with a gap
\* inside the codon the window ends before the codon does, and the statement
\* is violated.
C5_WindowHoldsStopCodon ==
    (pc = "returned" /\ result.ok) =>
        \A k \in 1..Len(inp_fasta.data) :
            LET s == inp_fasta.data[k].sequence
                o == result.val.data[k].sequence
                j == group_stop - group_start
            IN  EntryFirstStop(s, group_start) = <<group_stop>> =>
                   /\ Len(o) >= j + 3
                   /\ IsStopTriplet(o[j + 1], o[j + 2], o[j + 3])
                   /\ IsStopTriplet(s[group_stop + 1], s[group_stop + 2],
                                    s[group_stop + 3])

----------------------------------------------------------------------------
(* C13 *)

\* the variants trim_to_orf can return besides Ok
ReachableErrors == {"NoStartCodons", "NoGroupStart", "NoStopCodons"}

\* C13: TrimFailed is unreachable from trim_to_orf.  The list handed to
\* mode_vec_usize is never empty and mode_vec_usize never fails on it;
\* perform_trimming never produces zero records; trim_to_orf returns Ok or
\* one of NoStartCodons, NoGroupStart, NoStopCodons; and when it returns Ok
\* the consensus stop is not before the consensus start and the output has
\* exactly as many records as the input.
C13_TrimFailedUnreachable ==
    /\ pc = "mode_vec_usize" => first_stops # <<>>
    /\ mode_result # Pending => mode_result.ok
    /\ result # TrimFailed
    /\ pc = "returned" =>
          \/ /\ result.ok
             /\ group_stop >= group_start
             /\ Len(result.val.data) > 0
             /\ Len(result.val.data) = Len(inp_fasta.data)
          \/ /\ ~result.ok
             /\ result.kind \in ReachableErrors

\* trim_to_orf has returned Ok for two records whose first stops differ,
\* one of them scanned to no stop at all being impossible here: both rows
\* voted, the mode chose, and the trimmer cut both
C13_Witness ==
    /\ pc = "returned"
    /\ result.ok
    /\ Len(inp_fasta.data) = 2
    /\ Len(first_stops) = 2
    /\ first_stops[1] # first_stops[2]
    /\ group_stop > group_start
    /\ group_start > 0

----------------------------------------------------------------------------
(* C12 *)

\* the ordinal of every record is its 0-based position
OrdinalsArePositions(fasta) ==
    \A k \in 1..Len(fasta.data) : fasta.data[k].entry_number = k - 1

\* out has the records of inp at the same positions, each with its defline
\* and its ordinal
SameRecordsInOrder(inp, out) ==
    /\ Len(out.data) = Len(inp.data)
    /\ \A k \in 1..Len(inp.data) :
          /\ out.data[k].defline = inp.data[k].defline
          /\ out.data[k].entry_number = inp.data[k].entry_number

\* C12: the collection open_fasta returns, and every collection that
\* trim_to_orf returns from it after any number of trims, has ordinals equal
\* to the 0-based positions; a trim keeps the defline and the ordinal of each
\* record, emits the records in input order and cuts each sequence from its
\* own input record; find_starts never indexes its table out of bounds and
\* returns one row per record.
C12_OrdinalsArePositions ==
    /\ pc # "open_fasta" => /\ OrdinalsArePositions(base_fasta)
                            /\ OrdinalsArePositions(inp_fasta)
                            /\ SameRecordsInOrder(base_fasta, inp_fasta)
    /\ pc # "panicked"
    /\ pc \in {"find_group_start", "find_first_stops", "mode_vec_usize",
               "perform_trimming"} => Len(starts) = num_entries(inp_fasta)
    /\ (pc = "returned" /\ result.ok) =>
          /\ OrdinalsArePositions(result.val)
          /\ SameRecordsInOrder(inp_fasta, result.val)
          /\ \A k \in 1..Len(inp_fasta.data) :
                IF Len(inp_fasta.data[k].sequence) > group_start
                THEN IsWindowOf(result.val.data[k].sequence,
                                inp_fasta.data[k].sequence,
                                group_start, group_stop)
                ELSE result.val.data[k].sequence = <<>>

\* the second trim has returned two records; the file began with a sequence
\* line, which makes a record of empty defline, and had a header without a
\* sequence, which makes none
C12_Witness ==
    /\ pc = "returned"
    /\ result.ok
    /\ trims = 2
    /\ Len(result.val.data) = 2
    /\ Cardinality({i \in 1..Len(contents.val) :
                       starts_with_gt(contents.val[i])}) = 2
    /\ result.val.data[1].defline = <<>>
    /\ result.val.data[1].defline # result.val.data[2].defline

----------------------------------------------------------------------------
(* C11 *)

IsPrefix(a, b) == Len(a) <= Len(b) /\ a = SubSeq(b, 1, Len(a))

\* the calls of main and trim_to_orf in the order of the program text
CallOrder ==
    <<"open_fasta", "find_starts", "find_group_start", "find_first_stops",
      "mode_vec_usize", "perform_trimming", "write_fasta">>

TrimSteps == Elements(SubSeq(CallOrder, 2, 6))

\* trim_to_orf has returned an Err
TrimFailedWith == result # Pending /\ ~result.ok

\* open_fasta has returned an Err
OpenFailed == ~contents.ok /\ calls # <<>>

\* C11: the calls made are open_fasta, find_starts, find_group_start,
\* find_first_stops, mode_vec_usize, perform_trimming, write_fasta in that
\* order, each at most once; a step of trim_to_orf runs only while no step
\* has failed; the Err trim_to_orf returns is the Err of the last step that
\* ran; write_fasta is called, and anything printed, only after open_fasta
\* and trim_to_orf have returned Ok; after either has returned an Err nothing
\* has been printed and the process exits with status 1, and with that
\* status in no other case.
C11_OrderAndNoOutputOnFailure ==
    /\ IsPrefix(calls, CallOrder)
    /\ pc \in TrimSteps => /\ IsPrefix(Append(calls, pc), CallOrder)
                           /\ result = Pending
    /\ TrimFailedWith =>
          /\ pc \in {"returned", "exited"}
          /\ LET last == calls[Len(calls)]
             IN  \/ /\ last = "find_starts"
                    /\ result = find_starts(inp_fasta, num_entries(inp_fasta))
                 \/ /\ last = "find_group_start"
                    /\ result = NoGroupStart
                 \/ /\ last = "find_first_stops"
                    /\ result = find_first_stops(inp_fasta, group_start)
                 \/ /\ last \in {"mode_vec_usize", "perform_trimming"}
                    /\ result = TrimFailed
          /\ stdout = <<>>
          /\ pc = "exited" => exit_status = Some(1)
    /\ OpenFailed =>
          /\ calls = <<"open_fasta">>
          /\ pc = "exited"
          /\ stdout = <<>>
          /\ exit_status = Some(1)
    /\ (pc = "write_fasta" \/ "write_fasta" \in Elements(calls)
           \/ stdout # <<>>) =>
          /\ calls = CallOrder
          /\ contents.ok
          /\ result.ok
    /\ exit_status = Some(1) => OpenFailed \/ TrimFailedWith
    /\ exit_status = None <=> pc # "exited"

\* find_first_stops was the first step to fail, after three that did not:
\* the process has exited with status 1 and has printed nothing
C11_Witness ==
    /\ pc = "exited"
    /\ exit_status = Some(1)
    /\ result = NoStopCodons(group_start + 1)
    /\ calls = SubSeq(CallOrder, 1, 4)
    /\ Len(inp_fasta.data) = 2
    /\ stdout = <<>>

====
